---- MODULE Spec2Model ----
(***************************************************************************)
(* Model of the autoregressive text-generation controller of               *)
(* src/src/mamba.rs: TextGeneration::new and TextGeneration::run.          *)
(*                                                                         *)
(* The tokenizer, the Mamba model and the logits processor are external    *)
(* crates (tokenizers, candle_transformers).  They are modelled as small   *)
(* deterministic stubs: a vocabulary of VocabSize ids, a recurrent state   *)
(* that is a number below StateMod, integer logits, and a seeded random    *)
(* stream.  Every fallible call (each `?` of run) may fail.                *)
(***************************************************************************)
EXTENDS Integers, Sequences, FiniteSets, TLC

\* ------------------------------------------------------------------ bounds
VocabSize == 3      \* token ids are 0 .. VocabSize-1
MaxPrompt == 2      \* longest prompt, in tokens
MaxSample == 3      \* largest sample_len passed to run
MaxWindow == 2      \* largest repeat_last_n
MaxCalls  == 2      \* run calls made on the modelled engine
NumModels == 2      \* stub models (weights) the engine may be built with
StateMod  == 5      \* recurrent states of the stub model

\* ------------------------------------------------- external collaborators
Vocab == 0 .. (VocabSize - 1)
Words == 1 .. VocabSize
NoLogits == <<>>
NoState == -1
NoText == <<-1>>

\* id of "<|endoftext|>" when the vocabulary has it
EosId == 0

\* tokenizer.encode(prompt, true).get_ids(): a text is a sequence of words,
\* word w has id w - 1
Encode(text) == [i \in 1 .. Len(text) |-> text[i] - 1]

RECURSIVE DecodeFrom(_, _)
DecodeFrom(ids, i) ==
    IF i > Len(ids) THEN <<>>
    ELSE IF ids[i] = EosId THEN DecodeFrom(ids, i + 1)
    ELSE <<ids[i] + 1>> \o DecodeFrom(ids, i + 1)

\* tokenizer.decode(tokens, true): special tokens are skipped
Decode(ids) == DecodeFrom(ids, 1)

\* State::new(1, config, dtype, device)
InitState == 0

\* the recurrent state after model.forward(t, state)
NextState(h, t) == (3 * h + t + 1) % StateMod

\* the logit of token v the stub model m returns on reaching state h; logits
\* are even so that a division by the penalty 2 is exact
LogitOf(m, h, v) == 2 * (((2 * (h + 1) * (v + 2) + m * (v + 1) + 1) % 5) - 2)

Logits(m, h) == [v \in Vocab |-> LogitOf(m, h, v)]

RECURSIVE FoldState(_, _)
\* the recurrent state after stepping a fresh state over ids[1..n] in order
FoldState(ids, n) ==
    IF n = 0 THEN InitState ELSE NextState(FoldState(ids, n - 1), ids[n])

\* ---------------------------------------------------------------- sampler
\* the seed init() builds the engine with
Seed == 299792458

\* the r-th value of the random stream seeded with Seed
Draw(r) == (Seed + 7 * r + r * r) % 97

Weight(l) == l + 9

RECURSIVE WeightSum(_, _)
WeightSum(lg, n) == IF n < 0 THEN 0 ELSE WeightSum(lg, n - 1) + Weight(lg[n])

\* the smallest id with the largest logit
ArgMax(lg) ==
    CHOOSE v \in Vocab :
        /\ \A u \in Vocab : lg[u] <= lg[v]
        /\ \A u \in Vocab : lg[u] = lg[v] => v <= u

\* the first id whose cumulative weight exceeds the draw
Multinomial(lg, r) ==
    LET u == Draw(r) % WeightSum(lg, VocabSize - 1)
    IN  CHOOSE v \in Vocab :
            /\ WeightSum(lg, v) > u
            /\ \A w \in Vocab : WeightSum(lg, w) > u => v <= w

\* LogitsProcessor::sample: greedy without a temperature, else one draw of
\* the processor's random stream
SampleToken(lg, t, r) == IF t = "none" THEN ArgMax(lg) ELSE Multinomial(lg, r)

SampleRng(t, r) == IF t = "none" THEN r ELSE r + 1

\* ------------------------------------------------------- repeat penalty
RECURSIVE PenaltyLoop(_, _, _, _, _)
\* apply_repeat_penalty: walk the context, adjust each id the first time it
\* is met
PenaltyLoop(lg, penalty, ctx, i, seen) ==
    IF i > Len(ctx) THEN lg
    ELSE IF ctx[i] \in seen THEN PenaltyLoop(lg, penalty, ctx, i + 1, seen)
    ELSE LET t == ctx[i]
             adj == IF lg[t] >= 0 THEN lg[t] \div penalty ELSE lg[t] * penalty
         IN  PenaltyLoop([lg EXCEPT ![t] = adj], penalty, ctx, i + 1,
                         seen \cup {t})

ApplyRepeatPenalty(lg, penalty, ctx) == PenaltyLoop(lg, penalty, ctx, 1, {})

\* ------------------------------------------------------------------ state
VARIABLES
    modelId,           \* self.model: which stub weights
    hasEos,            \* whether the tokenizer's vocabulary has "<|endoftext|>"
    temp,              \* temperature given to LogitsProcessor::new: "none" | "some"
    repeat_penalty,    \* self.repeat_penalty
    repeat_last_n,     \* self.repeat_last_n
    rng,               \* self.logits_processor: draws taken from its stream
    pc,                \* position of the current run call
    prompt,            \* run's prompt argument
    sample_len,        \* run's sample_len argument
    tokens,            \* run's tokens
    generated_tokens,  \* run's generated_tokens
    state,             \* run's recurrent state
    next_logits,       \* run's next_logits (NoLogits: None)
    idx,               \* tokens consumed by the prefill loop
    iter,              \* iterations of the decode loop begun
    output,            \* the text run returned (NoText: none)
    err,               \* the error run returned ("none": none)
    promptIds,         \* history: the ids the prompt encoded to
    fed,               \* history: the ids model.forward was given, in order
    steps,             \* history: invocations of model.forward in this call
    sampled,           \* history: the logits last given to the sampler
    calls,             \* history: run calls started
    rebuilt,           \* history: the engine was rebuilt since the last call
    prev               \* history: the previous call and its result

engine == <<modelId, hasEos, temp, repeat_penalty, repeat_last_n>>
callv == <<prompt, sample_len, tokens, generated_tokens, state, next_logits,
           idx, iter, output, err, promptIds, fed, steps, sampled>>
vars == <<modelId, hasEos, temp, repeat_penalty, repeat_last_n, rng, pc,
          prompt, sample_len, tokens, generated_tokens, state, next_logits,
          idx, iter, output, err, promptIds, fed, steps, sampled, calls,
          rebuilt, prev>>

Penalties == {1, 2}
Temps == {"none", "some"}
Windows == 1 .. MaxWindow

RECURSIVE SeqsUpTo(_, _)
SeqsUpTo(S, n) ==
    IF n = 0 THEN {<<>>}
    ELSE LET shorter == SeqsUpTo(S, n - 1)
         IN  shorter \cup {Append(s, x) : s \in {t \in shorter : Len(t) = n - 1}, x \in S}

Prompts == SeqsUpTo(Words, MaxPrompt)

Terminal == {"Completed", "Failed"}

NoPrev == [status |-> "none", prompt |-> <<>>, sample_len |-> 0,
           tokens |-> <<>>, sameEngine |-> FALSE]

\* ------------------------------------------------------------ construction
\* TextGeneration::new: the fields are stored and the logits processor is
\* seeded; nothing is checked and nothing can fail
Init ==
    /\ modelId \in 0 .. (NumModels - 1)
    /\ hasEos \in BOOLEAN
    /\ temp \in Temps
    /\ repeat_penalty \in Penalties
    /\ repeat_last_n \in Windows
    /\ rng = 0
    /\ pc = "Idle"
    /\ prompt = <<>>
    /\ sample_len = 0
    /\ tokens = <<>>
    /\ generated_tokens = 0
    /\ state = NoState
    /\ next_logits = NoLogits
    /\ idx = 0
    /\ iter = 0
    /\ output = NoText
    /\ err = "none"
    /\ promptIds = <<>>
    /\ fed = <<>>
    /\ steps = 0
    /\ sampled = NoLogits
    /\ calls = 0
    /\ rebuilt = FALSE
    /\ prev = NoPrev

\* init() again: a second engine with the same model, tokenizer, seed and
\* sampling configuration replaces the first
New ==
    /\ pc = "Idle"
    /\ calls > 0
    /\ calls < MaxCalls
    /\ ~rebuilt
    /\ rng' = 0
    /\ rebuilt' = TRUE
    /\ UNCHANGED <<engine, pc, callv, calls, prev>>

\* -------------------------------------------------------------------- run
\* an error path that hands back the text decoded so far
FailWithPartial(e) ==
    /\ pc' = "Failed"
    /\ err' = e
    /\ output' = Decode(tokens)

\* an error leaves run through `?` or bail!: only the error is returned
FailWith(e) ==
    /\ pc' = "Failed"
    /\ err' = e
    /\ output' = NoText

\* a loop bound that runs one iteration too many
LoopContinuesInclusive == iter <= sample_len

\* for _ in 0..sample_len
LoopContinues == iter < sample_len

\* a window that is cut off at the end of the prompt
StartAtGenerated ==
    IF Len(tokens) - Len(promptIds) > repeat_last_n
    THEN Len(tokens) - repeat_last_n ELSE Len(promptIds)

\* let start_at = tokens.len().saturating_sub(self.repeat_last_n)
StartAt ==
    IF Len(tokens) > repeat_last_n THEN Len(tokens) - repeat_last_n ELSE 0

\* &tokens[start_at..]
PenaltyContext == SubSeq(tokens, StartAt + 1, Len(tokens))

\* the logits given to the sampler in this iteration
AdjustedLogits ==
    IF repeat_penalty = 1 THEN next_logits
    ELSE ApplyRepeatPenalty(next_logits, repeat_penalty, PenaltyContext)

\* a count that leaves the EOS token out
NextCountSkipEos(g, tok) == IF tok = EosId THEN g ELSE g + 1

\* generated_tokens += 1, before the EOS test
NextCount(g, tok) == g + 1

\* a loop that never breaks on EOS
AfterSampleNoBreak(tok) == "DecodeForward"

\* a loop that also leaves once the budget is used up, without the last step
AfterSampleBudget(tok) ==
    IF tok = EosId \/ generated_tokens + 1 >= sample_len
    THEN "Finish" ELSE "DecodeForward"

\* if next_token == *eos_token { break }, else on to the model step
AfterSample(tok) == IF tok = EosId THEN "Finish" ELSE "DecodeForward"

\* a prefill that keeps the logits of the first prompt token
KeepFirstLogits(old, new) == IF old = NoLogits THEN new ELSE old

\* next_logits = Some(logits)
KeepLogits(old, new) == new

\* run is entered: the prompt is encoded and the counters are set up; the
\* caller makes at most `limit` calls
RunEncode(limit) ==
    /\ pc = "Idle"
    /\ calls < limit
    /\ \E p \in Prompts, n \in 0 .. MaxSample :
        /\ prompt' = p
        /\ sample_len' = n
        /\ \/ /\ tokens' = Encode(p)
              /\ promptIds' = Encode(p)
              /\ pc' = "EosLookup"
              /\ err' = "none"
           \/ /\ tokens' = <<>>
              /\ promptIds' = <<>>
              /\ pc' = "Failed"
              /\ err' = "encode"
    /\ generated_tokens' = 0
    /\ state' = NoState
    /\ next_logits' = NoLogits
    /\ idx' = 0
    /\ iter' = 0
    /\ output' = NoText
    /\ fed' = <<>>
    /\ steps' = 0
    /\ sampled' = NoLogits
    /\ calls' = calls + 1
    /\ rebuilt' = FALSE
    /\ prev' = IF prev.status = "Completed"
               THEN [prev EXCEPT !.sameEngine = ~rebuilt]
               ELSE prev
    /\ UNCHANGED <<engine, rng>>

\* the id of "<|endoftext|>" is looked up in the vocabulary
RunEosLookup ==
    /\ pc = "EosLookup"
    /\ IF hasEos
       THEN pc' = "StateNew" /\ UNCHANGED <<err, output>>
       ELSE FailWith("no_eos")
    /\ UNCHANGED <<engine, rng, prompt, sample_len, tokens, generated_tokens,
                   state, next_logits, idx, iter, promptIds, fed, steps,
                   sampled, calls, rebuilt, prev>>

\* State::new
RunStateNew ==
    /\ pc = "StateNew"
    /\ \/ /\ state' = InitState
          /\ pc' = IF Len(tokens) > 0 THEN "Prefill" ELSE "Decode"
          /\ UNCHANGED <<err, output>>
       \/ /\ FailWith("state")
          /\ UNCHANGED state
    /\ UNCHANGED <<engine, rng, prompt, sample_len, tokens, generated_tokens,
                   next_logits, idx, iter, promptIds, fed, steps, sampled,
                   calls, rebuilt, prev>>

\* one iteration of the prefill loop
PrefillStep ==
    /\ pc = "Prefill"
    /\ idx < Len(tokens)
    /\ LET t == tokens[idx + 1]
           h == NextState(state, t)
       IN  \/ /\ state' = h
              /\ next_logits' = KeepLogits(next_logits, Logits(modelId, h))
              /\ fed' = Append(fed, t)
              /\ steps' = steps + 1
              /\ idx' = idx + 1
              /\ pc' = IF idx + 1 < Len(tokens) THEN "Prefill" ELSE "Decode"
              /\ UNCHANGED <<err, output>>
           \/ /\ FailWith("tensor")
              /\ UNCHANGED <<state, next_logits, fed, steps, idx>>
           \/ /\ FailWith("model")
              /\ steps' = steps + 1
              /\ UNCHANGED <<state, next_logits, fed, idx>>
    /\ UNCHANGED <<engine, rng, prompt, sample_len, tokens, generated_tokens,
                   iter, promptIds, sampled, calls, rebuilt, prev>>

\* the first half of a decode iteration: penalty, sample, push, count, EOS test
DecodeSample ==
    /\ pc = "Decode"
    /\ LoopContinues
    /\ IF next_logits = NoLogits
       THEN /\ FailWith("empty_prompt")
            /\ UNCHANGED <<tokens, generated_tokens, rng, sampled>>
       ELSE \/ /\ FailWith("logits")
               /\ UNCHANGED <<tokens, generated_tokens, rng, sampled>>
            \/ LET lg == AdjustedLogits
                   next_token == SampleToken(lg, temp, rng)
               IN  /\ sampled' = lg
                   /\ rng' = SampleRng(temp, rng)
                   /\ tokens' = Append(tokens, next_token)
                   /\ generated_tokens' = NextCount(generated_tokens, next_token)
                   /\ pc' = AfterSample(next_token)
                   /\ UNCHANGED <<err, output>>
    /\ UNCHANGED <<engine, prompt, sample_len, state, next_logits, idx, iter,
                   promptIds, fed, steps, calls, rebuilt, prev>>

\* the second half: the model is stepped on the sampled token
DecodeForward ==
    /\ pc = "DecodeForward"
    /\ LET t == tokens[Len(tokens)]
           h == NextState(state, t)
       IN  \/ /\ state' = h
              /\ next_logits' = Logits(modelId, h)
              /\ fed' = Append(fed, t)
              /\ steps' = steps + 1
              /\ iter' = iter + 1
              /\ pc' = "Decode"
              /\ UNCHANGED <<err, output>>
           \/ /\ FailWith("tensor")
              /\ UNCHANGED <<state, next_logits, fed, steps, iter>>
           \/ /\ FailWith("model")
              /\ steps' = steps + 1
              /\ UNCHANGED <<state, next_logits, fed, iter>>
    /\ UNCHANGED <<engine, rng, prompt, sample_len, tokens, generated_tokens,
                   idx, promptIds, sampled, calls, rebuilt, prev>>

\* after the loop: flush, the throughput line, decode of the whole history
RunFinish ==
    /\ \/ pc = "Finish"
       \/ pc = "Decode" /\ ~LoopContinues
    /\ \/ /\ pc' = "Completed"
          /\ output' = Decode(tokens)
          /\ UNCHANGED err
       \/ FailWith("flush")
       \/ FailWith("decode")
    /\ UNCHANGED <<engine, rng, prompt, sample_len, tokens, generated_tokens,
                   state, next_logits, idx, iter, promptIds, fed, steps,
                   sampled, calls, rebuilt, prev>>

\* run has returned: its locals are dropped and the caller holds the result;
\* with `remember` a completed call is kept as history, to compare the next
\* call with
Return(remember) ==
    /\ pc \in Terminal
    /\ pc' = "Idle"
    /\ prompt' = <<>>
    /\ sample_len' = 0
    /\ tokens' = <<>>
    /\ generated_tokens' = 0
    /\ state' = NoState
    /\ next_logits' = NoLogits
    /\ idx' = 0
    /\ iter' = 0
    /\ output' = NoText
    /\ err' = "none"
    /\ promptIds' = <<>>
    /\ fed' = <<>>
    /\ steps' = 0
    /\ sampled' = NoLogits
    /\ prev' = IF remember /\ pc = "Completed"
               THEN [status |-> pc, prompt |-> prompt, sample_len |-> sample_len,
                     tokens |-> tokens, sameEngine |-> FALSE]
               ELSE NoPrev
    /\ UNCHANGED <<engine, rng, calls, rebuilt>>

\* one run call on a newly built engine
Next ==
    \/ RunEncode(1)
    \/ Return(FALSE)
    \/ RunEosLookup
    \/ RunStateNew
    \/ PrefillStep
    \/ DecodeSample
    \/ DecodeForward
    \/ RunFinish

Spec == Init /\ [][Next]_vars

\* up to MaxCalls run calls, the engine rebuilt or kept between them
NextCalls ==
    \/ New
    \/ RunEncode(MaxCalls)
    \/ Return(FALSE)
    \/ RunEosLookup
    \/ RunStateNew
    \/ PrefillStep
    \/ DecodeSample
    \/ DecodeForward
    \/ RunFinish

SpecCalls == Init /\ [][NextCalls]_vars

\* the same, each completed call remembered until the next one has ended
NextPairs ==
    \/ New
    \/ RunEncode(MaxCalls)
    \/ Return(TRUE)
    \/ RunEosLookup
    \/ RunStateNew
    \/ PrefillStep
    \/ DecodeSample
    \/ DecodeForward
    \/ RunFinish

SpecPairs == Init /\ [][NextPairs]_vars

\* ----------------------------------------------------------------- claims
IsPrefix(a, b) == Len(a) <= Len(b) /\ SubSeq(b, 1, Len(a)) = a

Front(sq) == SubSeq(sq, 1, Len(sq) - 1)

\* the i-th generated token of the current call
Generated(i) == tokens[Len(promptIds) + i]

EndedOnEos == generated_tokens > 0 /\ tokens[Len(tokens)] = EosId

\* C1: in every state of a run call the number of sampled tokens,
\* generated_tokens, is at most the budget sample_len.
C1_BudgetRespected == generated_tokens <= sample_len

\* C1 witness: a completed run that never sampled EOS and used its whole
\* budget of at least two tokens.
C1_Witness ==
    /\ pc = "Completed"
    /\ sample_len >= 2
    /\ generated_tokens = sample_len
    /\ \A i \in 1 .. generated_tokens : Generated(i) # EosId

\* C2: no token is sampled after an EOS (an EOS is only ever the last
\* generated token, and it is counted); once EOS is sampled the run is past
\* its loop; a completed run either ended on EOS or generated exactly
\* sample_len tokens.
C2_StopsIffEos ==
    /\ Len(tokens) = Len(promptIds) + generated_tokens
    /\ \A i \in 1 .. (generated_tokens - 1) : Generated(i) # EosId
    /\ EndedOnEos => pc \in {"Finish", "Completed", "Failed"}
    /\ (EndedOnEos /\ pc = "Failed") => err \in {"flush", "decode"}
    /\ pc = "Completed" => (EndedOnEos \/ generated_tokens = sample_len)
    /\ (pc = "Completed" /\ generated_tokens < sample_len) => EndedOnEos

\* C2 witness: the scenario of the specification: a one-token prompt, a
\* budget of 3, EOS sampled second, so 2 tokens are generated.
C2_Witness ==
    /\ pc = "Completed"
    /\ Len(promptIds) = 1
    /\ sample_len = 3
    /\ generated_tokens = 2
    /\ tokens[3] = EosId
    /\ tokens[2] # EosId

\* C3 (as claimed): a run whose prompt encoded to zero tokens, and that got
\* past the EOS lookup and the creation of the recurrent state, ends failed
\* with the empty-prompt error and without a model step, whatever its budget.
C3_EmptyPromptFails ==
    (/\ pc \in Terminal
     /\ promptIds = <<>>
     /\ err \notin {"encode", "no_eos", "state"})
    => (pc = "Failed" /\ err = "empty_prompt" /\ steps = 0)

\* C4 (as claimed): two completed run calls with the same prompt and the same
\* budget, on one engine or on two engines built alike, yield the same token
\* history.
C4_Reproducible ==
    (/\ pc = "Completed"
     /\ prev.status = "Completed"
     /\ prev.prompt = prompt
     /\ prev.sample_len = sample_len)
    => prev.tokens = tokens

\* what does hold of repeated calls: they agree when decoding is greedy or the
\* second call is made on an engine built anew with the same seed.
ReproducibleWhenReseeded ==
    (/\ pc = "Completed"
     /\ prev.status = "Completed"
     /\ prev.prompt = prompt
     /\ prev.sample_len = sample_len
     /\ (temp = "none" \/ ~prev.sameEngine))
    => prev.tokens = tokens

\* C5 (as claimed): an engine whose vocabulary has no EOS token does not
\* exist after construction, so no run call starts on one.
C5_NoEosRejectedAtConstruction == hasEos \/ pc = "Idle"

\* C6: a failed run returns its error and no text; when a fallible operation
\* fails, the history, the counters and the sampler are left as they were (no
\* substitute token); and after the failure nothing of the call changes any
\* more (no further step, no sampling, no retry): the call only returns.
C6_ErrorsAbort ==
    /\ [](pc = "Failed" => (output = NoText /\ err # "none"))
    /\ [](pc = "Completed" => err = "none")
    /\ [][(pc # "Failed" /\ pc' = "Failed")
            => (/\ tokens' = tokens
                /\ generated_tokens' = generated_tokens
                /\ fed' = fed
                /\ state' = state
                /\ rng' = rng)]_vars
    /\ [][pc = "Failed" => (pc' = "Idle" \/ UNCHANGED <<pc, callv, rng>>)]_vars

\* C6 witness: the model failed in a decode iteration, after a token had been
\* generated.
C6_Witness ==
    /\ pc = "Failed"
    /\ err = "model"
    /\ generated_tokens >= 1
    /\ output = NoText

\* C7: the history is the encoded prompt followed by generated_tokens sampled
\* tokens, and until the call returns it only grows at its end.
C7_HistoryLength ==
    /\ [](/\ Len(tokens) = Len(promptIds) + generated_tokens
          /\ IsPrefix(promptIds, tokens))
    /\ [][pc' # "Idle" => IsPrefix(tokens, tokens')]_vars

\* C7 witness: between two decode iterations, two prompt tokens and two
\* generated ones.
C7_Witness ==
    /\ pc = "Decode"
    /\ Len(promptIds) = 2
    /\ generated_tokens = 2
    /\ Len(tokens) = 4

\* the adjustment the specification describes, over the set of ids in the
\* last `window` entries of `hist`
PenaltyBySet(raw, hist, window, penalty) ==
    LET n == Len(hist)
        R == {hist[i] : i \in {j \in 1 .. n : j > n - window}}
    IN  [v \in Vocab |->
            IF v \in R
            THEN IF raw[v] >= 0 THEN raw[v] \div penalty ELSE raw[v] * penalty
            ELSE raw[v]]

\* the token just sampled has not been fed to the model yet
JustSampled == pc = "DecodeForward" \/ (pc = "Finish" /\ EndedOnEos)

\* C8: with a penalty other than 1 the sampler is given the current logits
\* adjusted once for each distinct id among the last repeat_last_n entries of
\* the history as it was before the sampled token was pushed (prompt
\* included): divided if >= 0, multiplied if negative, the rest unchanged.
C8_PenaltyWindow ==
    (JustSampled /\ repeat_penalty # 1)
    => sampled = PenaltyBySet(next_logits, Front(tokens), repeat_last_n,
                              repeat_penalty)

\* C8 witness: the shape of the specification's scenario: window 2, penalty
\* 2, history [a, a, b]; a is in the window once, its logit is positive and
\* is halved; b's is negative and is doubled.
C8_Witness ==
    /\ JustSampled
    /\ repeat_penalty = 2
    /\ repeat_last_n = 2
    /\ Len(tokens) = 4
    /\ tokens[1] = tokens[2]
    /\ tokens[2] # tokens[3]
    /\ next_logits[tokens[2]] > 0
    /\ next_logits[tokens[3]] < 0
    /\ sampled[tokens[2]] * 2 = next_logits[tokens[2]]
    /\ sampled[tokens[3]] = next_logits[tokens[3]] * 2

\* C9: the model is stepped on the history's tokens in order, each once, on
\* one state that starts fresh in every call; the logits a token is sampled
\* from are those of the step on the last token of the history.
C9_SequentialSteps ==
    /\ IsPrefix(fed, tokens)
    /\ pc # "Failed" => steps = Len(fed)
    /\ state # NoState => state = FoldState(fed, Len(fed))
    /\ pc = "Prefill" => fed = SubSeq(tokens, 1, idx)
    /\ pc = "Decode" => fed = tokens
    /\ (pc = "Decode" /\ tokens # <<>>)
         => next_logits = Logits(modelId, FoldState(tokens, Len(tokens)))
    /\ pc = "DecodeForward"
         => /\ fed = Front(tokens)
            /\ next_logits = Logits(modelId, FoldState(fed, Len(fed)))
            /\ repeat_penalty = 1 => sampled = next_logits

\* C9 witness: in a second call, a second token has been sampled after a
\* prompt of two tokens.
C9_Witness ==
    /\ pc = "DecodeForward"
    /\ calls = 2
    /\ Len(promptIds) = 2
    /\ generated_tokens = 2

\* C10: a completed run on a non-empty prompt stepped the model on every
\* token of the history except a final EOS; with a budget of 0 that is the
\* prompt, and the output is the decoded prompt.
C10_StepCount ==
    (pc = "Completed" /\ promptIds # <<>>)
    => /\ fed = (IF EndedOnEos THEN Front(tokens) ELSE tokens)
       /\ steps = Len(promptIds) + generated_tokens
                    - (IF EndedOnEos THEN 1 ELSE 0)
       /\ sample_len = 0
            => (steps = Len(promptIds) /\ output = Decode(promptIds))

\* C10 witness: the budget ran out on a token that is not EOS, and the model
\* was still stepped on it.
C10_Witness ==
    /\ pc = "Completed"
    /\ promptIds # <<>>
    /\ generated_tokens = sample_len
    /\ sample_len >= 1
    /\ ~EndedOnEos
    /\ steps = Len(tokens)

====
